---- MODULE Spec2Model ----
\* Model of the ELEC0021 exercises: the word counter (coursework-1/main.py),
\* the purchase leaderboard (lab4.py) and the text repeater (lab1.py).
\*
\* Python strings are sequences of code points, so that str.strip, str.split,
\* str.upper, int(), float() and the lexicographic order of sorted() are
\* computed and not assumed.  Floats are modelled by the integers they hold;
\* the inputs are finite numbers with no fractional part (no nan, no inf, no
\* rounding).  A dict is a function; its insertion order is not modelled, since
\* every sort of the code sorts on a key that is unique per entry.
EXTENDS Integers, Sequences, FiniteSets, TLC

VARIABLES
    prog,       \* which script this run executes
    pc,         \* position in the script
    ret,        \* the last call: [op, arg, n, val, err]
    words,      \* Counter.words
    log,        \* the successful Counter.add calls so far, in order
    lines,      \* raw_lines given to parse_purchases
    country,    \* the country given to total_spend_by_user
    purchases,  \* the list of Purchase objects
    fees,       \* number of apply_fee calls made
    totals,     \* the dict returned by total_spend_by_user
    leaders,    \* the list returned by top_users
    argv,       \* sys.argv of lab1
    stdout,     \* what lab1 printed, one entry per print call
    exited      \* whether lab1 left through sys.exit()

vars == <<prog, pc, ret, words, log, lines, country, purchases, fees, totals,
          leaders, argv, stdout, exited>>

----------------------------------------------------------------------------
\* Bounds of the model.

MaxCalls == 3      \* Counter.add calls per run
MaxLines == 2      \* len(raw_lines)
MaxFees  == 1      \* apply_fee calls per run
MaxLimit == 4      \* largest limit given to top_users
MaxTotal == 2      \* largest value of a directly drawn totals dict
MaxArgs  == 3      \* len(sys.argv) - 1

----------------------------------------------------------------------------
\* Strings.

Min(a, b) == IF a < b THEN a ELSE b
Max(a, b) == IF a > b THEN a ELSE b

\* "a", "ab", "b": keys of the ledgers.
KeyA  == <<97>>
KeyAB == <<97, 98>>
KeyB  == <<98>>
Keys  == {KeyA, KeyAB, KeyB}

\* str < str: lexicographic on code points, a proper prefix first.
RECURSIVE StrLess(_, _)
StrLess(s, t) ==
    IF t = <<>> THEN FALSE
    ELSE IF s = <<>> THEN TRUE
    ELSE IF s[1] # t[1] THEN s[1] < t[1]
    ELSE StrLess(Tail(s), Tail(t))

IsSpace(c) == c \in {9, 10, 11, 12, 13, 32}

RECURSIVE LStrip(_)
LStrip(s) == IF s # <<>> /\ IsSpace(s[1]) THEN LStrip(Tail(s)) ELSE s

RECURSIVE RStrip(_)
RStrip(s) ==
    IF s # <<>> /\ IsSpace(s[Len(s)]) THEN RStrip(SubSeq(s, 1, Len(s) - 1)) ELSE s

\* str.strip()
Strip(s) == RStrip(LStrip(s))

\* str.split(","): the fields between the commas, at least one field.
RECURSIVE Split(_)
Split(s) ==
    IF \A i \in 1..Len(s) : s[i] # 44 THEN <<s>>
    ELSE LET i == CHOOSE j \in 1..Len(s) :
                      s[j] = 44 /\ \A k \in 1..(j - 1) : s[k] # 44
         IN  <<SubSeq(s, 1, i - 1)>> \o Split(SubSeq(s, i + 1, Len(s)))

IsDigit(c) == c \in 48..57

RECURSIVE DigitsValue(_)
DigitsValue(s) ==
    IF s = <<>> THEN 0 ELSE 10 * DigitsValue(SubSeq(s, 1, Len(s) - 1)) + (s[Len(s)] - 48)

\* The decimal integer literals of int() and float(): surrounding whitespace,
\* an optional sign, then at least one digit.  [ok, val].
ParseNumber(s) ==
    LET t == Strip(s)
        signed == t # <<>> /\ t[1] \in {43, 45}
        d == IF signed THEN Tail(t) ELSE t
    IN  IF d # <<>> /\ \A i \in 1..Len(d) : IsDigit(d[i])
        THEN [ok |-> TRUE,
              val |-> IF signed /\ t[1] = 45 THEN 0 - DigitsValue(d) ELSE DigitsValue(d)]
        ELSE [ok |-> FALSE, val |-> 0]

\* int(str): ValueError when the text is no integer literal.
ParseInt(s) == ParseNumber(s)

\* float(str), on the literals the inputs hold.
ParseFloat(s) == ParseNumber(s)

----------------------------------------------------------------------------
\* Dicts.

EmptyDict == <<>>

\* dict.get(key, default)
Get(d, k, default) == IF k \in DOMAIN d THEN d[k] ELSE default

\* d[key] = value
Put(d, k, v) == [x \in (DOMAIN d) \cup {k} |-> IF x = k THEN v ELSE d[x]]

\* The last call and its outcome.
NoRet == [op |-> "none", arg |-> <<>>, n |-> 0, val |-> <<>>, err |-> "none"]
Ret(op, arg, n, val, err) == [op |-> op, arg |-> arg, n |-> n, val |-> val, err |-> err]

----------------------------------------------------------------------------
\* coursework-1/main.py: Counter.

\* Counter.add: the guard that raises ValueError (first, with 0 let through).
AddRejectsBelowZero(n) == n < 0
AddRejects(n) == n < 1

\* Counter.add: the stored count after a successful add (first, with the old
\* count dropped).
AddOverwrites(w, item, n) == Put(w, item, n)
AddStore(w, item, n) == Put(w, item, Get(w, item, 0) + n)

\* Counter.count
count(w, item) == Get(w, item, 0)

\* max(self.words.values())
Highest(w) == CHOOSE v \in {w[k] : k \in DOMAIN w} : \A k \in DOMAIN w : w[k] <= v

\* sorted(highest_list)[0]
FirstSorted(S) == CHOOSE k \in S : \A j \in S : j = k \/ StrLess(k, j)
LastSorted(S) == CHOOSE k \in S : \A j \in S : j = k \/ StrLess(j, k)

\* Counter.most_common on a non-empty counter: (word, count) (first, with the
\* tie going to the last word).
MostCommonLast(w) == <<LastSorted({k \in DOMAIN w : w[k] = Highest(w)}), Highest(w)>>
most_common(w) == <<FirstSorted({k \in DOMAIN w : w[k] = Highest(w)}), Highest(w)>>

AddAmounts == {-1, 0, 1, 2}

CounterIdle == words = EmptyDict /\ log = <<>>
Lab4Idle ==
    /\ lines = <<>> /\ country = <<>> /\ purchases = <<>> /\ fees = 0
    /\ totals = EmptyDict /\ leaders = <<>>
Lab1Idle == argv = <<>> /\ stdout = <<>> /\ exited = FALSE

InitCounter ==
    /\ prog = "counter" /\ pc = "run" /\ ret = NoRet
    /\ CounterIdle /\ Lab4Idle /\ Lab1Idle

Add(item, n) ==
    /\ prog = "counter"
    /\ Len(log) < MaxCalls
    /\ IF AddRejects(n)
       THEN /\ ret' = Ret("add", item, n, <<>>, "ValueError")
            /\ UNCHANGED <<words, log>>
       ELSE /\ words' = AddStore(words, item, n)
            /\ log' = Append(log, <<item, n>>)
            /\ ret' = Ret("add", item, n, <<>>, "none")
    /\ UNCHANGED <<prog, pc, lines, country, purchases, fees, totals, leaders,
                   argv, stdout, exited>>

Count(item) ==
    /\ prog = "counter"
    /\ ret' = Ret("count", item, 0, count(words, item), "none")
    /\ UNCHANGED <<prog, pc, words, log, lines, country, purchases, fees, totals,
                   leaders, argv, stdout, exited>>

MostCommon ==
    /\ prog = "counter"
    /\ IF DOMAIN words = {}
       THEN ret' = Ret("most_common", <<>>, 0, <<>>, "ValueError")
       ELSE ret' = Ret("most_common", <<>>, 0, most_common(words), "none")
    /\ UNCHANGED <<prog, pc, words, log, lines, country, purchases, fees, totals,
                   leaders, argv, stdout, exited>>

----------------------------------------------------------------------------
\* lab4.py: Purchase, parse_purchases, total_spend_by_user, top_users, main.

UK == <<85, 75>>
FR == <<70, 82>>
Countries == {UK, FR}

\* The lines parse_purchases is given, with the text of each.
LineSet == {
    <<97, 44, 85, 75, 44, 49>>,                          \* "a,UK,1"
    <<97, 44, 85, 75, 44, 50>>,                          \* "a,UK,2"
    <<97, 44, 85, 75, 44, 48>>,                          \* "a,UK,0"
    <<98, 44, 85, 75, 44, 48>>,                          \* "b,UK,0"
    <<98, 44, 85, 75, 44, 49>>,                          \* "b,UK,1"
    <<97, 98, 44, 85, 75, 44, 49>>,                      \* "ab,UK,1"
    <<97, 44, 70, 82, 44, 49>>,                          \* "a,FR,1"
    <<98, 44, 70, 82, 44, 50>>,                          \* "b,FR,2"
    <<32, 97, 32, 44, 32, 85, 75, 32, 44, 32, 49, 32>>,  \* " a , UK , 1 "
    <<97, 44, 85, 75, 44, 45, 49>>,                      \* "a,UK,-1"
    <<98, 44, 70, 82, 44, 45, 49>>,                      \* "b,FR,-1"
    <<97, 44, 85, 75, 44, 120>>,                         \* "a,UK,x"
    <<32, 44, 85, 75, 44, 49>>,                          \* " ,UK,1"
    <<97, 44, 85, 75>>,                                  \* "a,UK"
    <<97, 44, 85, 75, 44, 49, 44, 49>>,                  \* "a,UK,1,1"
    <<97, 44, 117, 107, 44, 49>> }                       \* "a,uk,1"

\* Purchase.__init__: the guards that raise ValueError (the amount's also
\* with the test left out).
UserRejected(user) == Strip(user) = <<>>
AmountAlwaysAccepted(amount) == FALSE
AmountRejected(amount) == amount < 0

\* Purchase.__init__: [ok, val], val the object built.
Purchase(user, ctry, amount) ==
    IF UserRejected(user) \/ AmountRejected(amount)
    THEN [ok |-> FALSE, val |-> <<>>]
    ELSE [ok |-> TRUE,
          val |-> [user |-> Strip(user), country |-> Strip(ctry), amount |-> amount]]

\* Purchase.is_in_country
is_in_country(p, ctry) == p.country = ctry

\* One turn of the loop of parse_purchases: [ok, val].
\* The unpacking raises ValueError unless the line has three fields.
ParseLine(line) ==
    LET parts == [i \in 1..Len(Split(line)) |-> Strip(Split(line)[i])]
    IN  IF Len(parts) # 3 THEN [ok |-> FALSE, val |-> <<>>]
        ELSE IF ~ParseFloat(parts[3]).ok THEN [ok |-> FALSE, val |-> <<>>]
        ELSE Purchase(parts[1], parts[2], ParseFloat(parts[3]).val)

\* parse_purchases: [ok, val], val the list of purchases; the first line that
\* raises ends the call with nothing returned.
RECURSIVE parse_purchases(_)
parse_purchases(ls) ==
    IF ls = <<>> THEN [ok |-> TRUE, val |-> <<>>]
    ELSE LET first == ParseLine(Head(ls))
             rest == parse_purchases(Tail(ls))
         IN  IF first.ok /\ rest.ok
             THEN [ok |-> TRUE, val |-> <<first.val>> \o rest.val]
             ELSE [ok |-> FALSE, val |-> <<>>]

\* Purchase.apply_fee: the guard that raises ValueError (first, with the test
\* left out).
FeeAlwaysAccepted(fee) == FALSE
FeeRejected(fee) == fee < 0

\* Purchase.apply_fee: self._amount += fee (first, as a plain assignment).
AmountReplacedByFee(amount, fee) == fee
AmountAfterFee(amount, fee) == amount + fee

\* total_spend_by_user: one turn of its loop (first, with amounts of 0 passed
\* over; then, with the running total dropped).
TotalSkipsZero(acc, p, ctry) ==
    IF is_in_country(p, ctry) /\ p.amount # 0
    THEN Put(acc, p.user, Get(acc, p.user, 0) + p.amount)
    ELSE acc
TotalOverwrites(acc, p, ctry) ==
    IF is_in_country(p, ctry) THEN Put(acc, p.user, p.amount) ELSE acc
TotalStep(acc, p, ctry) ==
    IF is_in_country(p, ctry)
    THEN Put(acc, p.user, Get(acc, p.user, 0) + p.amount)
    ELSE acc

RECURSIVE TotalLoop(_, _, _)
TotalLoop(acc, ps, ctry) ==
    IF ps = <<>> THEN acc ELSE TotalLoop(TotalStep(acc, Head(ps), ctry), Tail(ps), ctry)

\* total_spend_by_user
total_spend_by_user(ps, ctry) == TotalLoop(EmptyDict, ps, ctry)

\* dict.items(): the set of (key, value) pairs.
Items(d) == {<<k, d[k]>> : k \in DOMAIN d}

\* top_users: the order of the sort key (-item[1], item[0]) (first, with ties
\* in descending key order).
SortKeyTiesDescending(x, y) == (0 - x[2]) < (0 - y[2]) \/ ((0 - x[2]) = (0 - y[2]) /\ StrLess(y[1], x[1]))
SortKeyLess(x, y) == (0 - x[2]) < (0 - y[2]) \/ ((0 - x[2]) = (0 - y[2]) /\ StrLess(x[1], y[1]))

\* sorted(items, key=...)
RECURSIVE Sorted(_)
Sorted(S) ==
    IF S = {} THEN <<>>
    ELSE LET m == CHOOSE x \in S : \A y \in S : y = x \/ SortKeyLess(x, y)
         IN  <<m>> \o Sorted(S \ {m})

\* list[:limit]
Slice(s, limit) ==
    IF limit >= 0 THEN SubSeq(s, 1, Min(limit, Len(s)))
    ELSE SubSeq(s, 1, Max(0, Len(s) + limit))

\* top_users
top_users(d, limit) == Slice(Sorted(Items(d)), limit)

Fees == {-1, 0, 1}

InitLeaderboard ==
    /\ prog = "leaderboard" /\ pc = "start" /\ ret = NoRet
    /\ lines \in UNION {[1..n -> LineSet] : n \in 0..MaxLines}
    /\ country \in Countries
    /\ purchases = <<>> /\ fees = 0 /\ totals = EmptyDict /\ leaders = <<>>
    /\ CounterIdle /\ Lab1Idle

\* top_users applied to any dict of non-negative totals.
InitRank ==
    /\ prog = "rank" /\ pc = "totalled" /\ ret = NoRet
    /\ totals \in UNION {[S -> 0..MaxTotal] : S \in SUBSET Keys}
    /\ lines = <<>> /\ country = <<>> /\ purchases = <<>> /\ fees = 0 /\ leaders = <<>>
    /\ CounterIdle /\ Lab1Idle

\* main: purchases = parse_purchases(raw_lines)
ParsePurchases ==
    /\ prog = "leaderboard" /\ pc = "start"
    /\ IF parse_purchases(lines).ok
       THEN /\ purchases' = parse_purchases(lines).val
            /\ pc' = "parsed"
            /\ ret' = Ret("parse_purchases", <<>>, 0, <<>>, "none")
       ELSE /\ pc' = "failed"
            /\ ret' = Ret("parse_purchases", <<>>, 0, <<>>, "ValueError")
            /\ UNCHANGED purchases
    /\ UNCHANGED <<prog, words, log, lines, country, fees, totals, leaders,
                   argv, stdout, exited>>

\* main: purchases[i].apply_fee(fee); i is the Python index plus one.
ApplyFee(i, fee) ==
    /\ prog = "leaderboard" /\ pc = "parsed"
    /\ fees < MaxFees
    /\ fees' = fees + 1
    /\ IF i > Len(purchases)
       THEN /\ pc' = "failed"
            /\ ret' = Ret("apply_fee", <<i>>, fee, <<>>, "IndexError")
            /\ UNCHANGED purchases
       ELSE IF FeeRejected(fee)
       THEN /\ pc' = "failed"
            /\ ret' = Ret("apply_fee", <<i>>, fee, <<>>, "ValueError")
            /\ UNCHANGED purchases
       ELSE /\ purchases' = [purchases EXCEPT ![i].amount = AmountAfterFee(@, fee)]
            /\ ret' = Ret("apply_fee", <<i>>, fee, <<>>, "none")
            /\ UNCHANGED pc
    /\ UNCHANGED <<prog, words, log, lines, country, totals, leaders,
                   argv, stdout, exited>>

\* main: totals = total_spend_by_user(purchases, country)
TotalSpendByUser ==
    /\ prog = "leaderboard" /\ pc = "parsed"
    /\ totals' = total_spend_by_user(purchases, country)
    /\ pc' = "totalled"
    /\ ret' = Ret("total_spend_by_user", <<>>, 0, <<>>, "none")
    /\ UNCHANGED <<prog, words, log, lines, country, purchases, fees, leaders,
                   argv, stdout, exited>>

\* main: leaders = top_users(totals, limit)
TopUsers(limit) ==
    /\ prog \in {"leaderboard", "rank"} /\ pc = "totalled"
    /\ leaders' = top_users(totals, limit)
    /\ pc' = "ranked"
    /\ ret' = Ret("top_users", <<>>, limit, <<>>, "none")
    /\ UNCHANGED <<prog, words, log, lines, country, purchases, fees, totals,
                   argv, stdout, exited>>

----------------------------------------------------------------------------
\* lab1.py: main.

ScriptName == <<108, 97, 98, 49, 46, 112, 121>>                        \* "lab1.py"
TimesFlag == <<45, 45, 116, 105, 109, 101, 115>>                       \* "--times"
UpperFlag == <<45, 45, 117, 112, 112, 101, 114, 99, 97, 115, 101>>     \* "--uppercase"
\* "Hello, World!\n"
Text == <<72, 101, 108, 108, 111, 44, 32, 87, 111, 114, 108, 100, 33, 10>>

\* The command-line words tried: the flags, "x", "0", "2", "-1".
ArgSet == {TimesFlag, UpperFlag, <<120>>, <<48>>, <<50>>, <<45, 49>>}

\* str.upper() on ASCII text
Upper(s) == [i \in 1..Len(s) |-> IF s[i] \in 97..122 THEN s[i] - 32 ELSE s[i]]

\* text * times
RECURSIVE Repeat(_, _)
Repeat(s, n) == IF n <= 0 THEN <<>> ELSE s \o Repeat(s, n - 1)

\* One print call: a message of the program, or the repeated text.
Printed(msg, text) == [msg |-> msg, text |-> text]

\* lab1 main: the test on the count.
TimesRejected(times) == times < 1

InitRepeat ==
    /\ prog = "repeat" /\ pc = "start" /\ ret = NoRet
    /\ argv \in {<<ScriptName>> \o a : a \in UNION {[1..n -> ArgSet] : n \in 0..MaxArgs}}
    /\ stdout = <<>> /\ exited = FALSE
    /\ CounterIdle /\ Lab4Idle

\* lab1 main, whole; argv[k + 1] is sys.argv[k].
Main ==
    /\ prog = "repeat" /\ pc = "start"
    /\ pc' = "done"
    /\ IF Len(argv) < 3
       THEN /\ stdout' = <<Printed("Usage: python lab1.py --times <number> [--uppercase]", <<>>)>>
            /\ exited' = TRUE
       ELSE IF argv[2] = TimesFlag
       THEN IF ~ParseInt(argv[3]).ok
            THEN /\ stdout' = <<Printed("Error: --times requires a number", <<>>)>>
                 /\ exited' = TRUE
            ELSE IF TimesRejected(ParseInt(argv[3]).val)
            THEN /\ stdout' = <<Printed("Error: --times must be at least 1", <<>>)>>
                 /\ exited' = TRUE
            ELSE /\ stdout' = <<Printed("",
                        Repeat(IF Len(argv) >= 4 /\ argv[4] = UpperFlag
                               THEN Upper(Text) ELSE Text,
                               ParseInt(argv[3]).val))>>
                 /\ exited' = FALSE
       ELSE /\ stdout' = <<>>
            /\ exited' = FALSE
    /\ UNCHANGED <<prog, ret, words, log, lines, country, purchases, fees, totals,
                   leaders, argv>>

----------------------------------------------------------------------------

Init == InitCounter \/ InitLeaderboard \/ InitRank \/ InitRepeat

Next ==
    \/ \E item \in Keys, n \in AddAmounts : Add(item, n)
    \/ \E item \in Keys : Count(item)
    \/ MostCommon
    \/ ParsePurchases
    \/ \E i \in 1..(MaxLines + 1), fee \in Fees : ApplyFee(i, fee)
    \/ TotalSpendByUser
    \/ \E limit \in 0..MaxLimit : TopUsers(limit)
    \/ Main

Spec == Init /\ [][Next]_vars
----------------------------------------------------------------------------
\* What the properties speak of.

\* The sum of the amounts the successful add calls gave for a word.
RECURSIVE SumLog(_, _)
SumLog(l, k) ==
    IF l = <<>> THEN 0
    ELSE (IF Head(l)[1] = k THEN Head(l)[2] ELSE 0) + SumLog(Tail(l), k)

\* A word no add call of the model ever names: "zz".
KeyNever == <<122, 122>>

\* A raw line read as a record (key, category, amount), its fields trimmed.
Field(line, i) == Strip(Split(line)[i])
WellFormed(line) == Len(Split(line)) = 3 /\ ParseFloat(Field(line, 3)).ok
RecKey(line) == Field(line, 1)
RecCat(line) == Field(line, 2)
RecAmt(line) == ParseFloat(Field(line, 3)).val
ValidRecord(line) == WellFormed(line) /\ RecKey(line) # <<>> /\ RecAmt(line) >= 0
Matches(line, ctry) == WellFormed(line) /\ RecCat(line) = ctry

RECURSIVE SumAmounts(_, _)
SumAmounts(ls, I) ==
    IF I = {} THEN 0
    ELSE LET i == CHOOSE j \in I : TRUE IN RecAmt(ls[i]) + SumAmounts(ls, I \ {i})

\* The ledger the matching records of ls add up to.
RefLedger(ls, ctry) ==
    LET M == {i \in 1..Len(ls) : Matches(ls[i], ctry)}
    IN  [k \in {RecKey(ls[i]) : i \in M} |->
            SumAmounts(ls, {i \in M : RecKey(ls[i]) = k})]

RemoveAt(s, i) == SubSeq(s, 1, i - 1) \o SubSeq(s, i + 1, Len(s))

\* build_filtered_ledger: parse_purchases, then total_spend_by_user.
Built(ls, ctry) == total_spend_by_user(parse_purchases(ls).val, ctry)

ParseFailed == pc = "failed" /\ ret.op = "parse_purchases"
LedgerBuilt == prog = "leaderboard" /\ pc \in {"totalled", "ranked"} /\ fees = 0

\* The ledger of one category over the purchases as they stand.
Ledger(ps, ctry) == total_spend_by_user(ps, ctry)
Categories(ps) == Countries \cup {ps[i].country : i \in 1..Len(ps)}

----------------------------------------------------------------------------
\* C1: after any sequence of Counter.add calls with positive amounts on an
\* empty counter, Counter.count(key) is the sum of the amounts added under
\* that key, and 0 for a key never added.
C1_CountIsSum ==
    prog = "counter" =>
        /\ \A k \in Keys \cup {KeyNever} : count(words, k) = SumLog(log, k)
        /\ count(words, KeyNever) = 0
        /\ ret.op = "count" => ret.val = SumLog(log, ret.arg)

C1_Witness ==
    /\ prog = "counter" /\ ret.op = "count" /\ ret.arg = KeyA /\ ret.val = 3
    /\ Len(log) = 2 /\ KeyB \notin DOMAIN words

\* C2: top_users(totals, limit) lists entries of totals by descending value,
\* equal values by ascending key, and holds min(limit, |totals|) of them, the
\* best ones: all when limit exceeds |totals|, none when limit is 0.
C2_TopKSorted ==
    pc = "ranked" =>
        /\ Len(leaders) = Min(ret.n, Cardinality(DOMAIN totals))
        /\ \A i \in 1..Len(leaders) : leaders[i] \in Items(totals)
        /\ \A i, j \in 1..Len(leaders) :
              i < j => \/ leaders[i][2] > leaders[j][2]
                       \/ /\ leaders[i][2] = leaders[j][2]
                          /\ StrLess(leaders[i][1], leaders[j][1])
        /\ \A x \in Items(totals) \ {leaders[i] : i \in 1..Len(leaders)} :
              \A i \in 1..Len(leaders) :
                  \/ leaders[i][2] > x[2]
                  \/ leaders[i][2] = x[2] /\ StrLess(leaders[i][1], x[1])
        /\ ret.n = 0 => leaders = <<>>
        /\ ret.n >= Cardinality(DOMAIN totals) =>
              {leaders[i] : i \in 1..Len(leaders)} = Items(totals)

\* A three-way tie, asked for more entries than there are.
C2_Witness ==
    /\ pc = "ranked" /\ ret.n = 4
    /\ DOMAIN totals = Keys /\ \A k \in Keys : totals[k] = 1
    /\ leaders = <<<<KeyA, 1>>, <<KeyAB, 1>>, <<KeyB, 1>>>>

\* C3: Counter.most_common raises on an empty counter, and on a non-empty one
\* returns the first entry of top_users(words, 1).
C3_BestIsTop1 ==
    (prog = "counter" /\ ret.op = "most_common") =>
        IF DOMAIN words = {}
        THEN ret.err = "ValueError"
        ELSE ret.err = "none" /\ ret.val = top_users(words, 1)[1]

\* Two words tie for the highest count and a third is below.
C3_Witness ==
    /\ prog = "counter" /\ ret.op = "most_common" /\ ret.err = "none"
    /\ DOMAIN words = Keys
    /\ words[KeyAB] = words[KeyB] /\ words[KeyA] < words[KeyB]
    /\ ret.val[1] = KeyAB

\* C4: Counter.add with an amount below 1 raises and leaves the counter as it
\* was: no key created, no count changed.
C4_AddBelowOneFails ==
    [][(prog = "counter" /\ ret'.op = "add" /\ ret'.n < 1) =>
          (ret'.err = "ValueError" /\ words' = words /\ log' = log)]_vars

C4_Witness ==
    /\ prog = "counter" /\ ret.op = "add" /\ ret.n < 1 /\ ret.err = "ValueError"
    /\ words # EmptyDict /\ ret.arg \notin DOMAIN words

\* The stored values: the counts of the counter, the amounts of the
\* purchases, the totals returned, and the totals of every country over the
\* purchases as they stand.  C5: every stored value is non-negative in every
\* reachable state, and no call lowers the value stored under a key.
StoredNonNegative ==
    /\ \A k \in DOMAIN words : words[k] >= 0
    /\ \A i \in 1..Len(purchases) : purchases[i].amount >= 0
    /\ \A k \in DOMAIN totals : totals[k] >= 0
    /\ \A c \in Categories(purchases) :
          \A k \in DOMAIN Ledger(purchases, c) : Ledger(purchases, c)[k] >= 0

NeverLowered ==
    /\ \A k \in DOMAIN words : k \in DOMAIN words' /\ words'[k] >= words[k]
    /\ \A i \in 1..Len(purchases) :
          i <= Len(purchases') /\ purchases'[i].amount >= purchases[i].amount
    /\ \A k \in DOMAIN totals : k \in DOMAIN totals' /\ totals'[k] >= totals[k]
    /\ \A c \in Categories(purchases) :
          \A k \in DOMAIN Ledger(purchases, c) :
              /\ k \in DOMAIN Ledger(purchases', c)
              /\ Ledger(purchases', c)[k] >= Ledger(purchases, c)[k]

\* C5: the two together, in every state and at every step.
C5_NonNegativeMonotone == []StoredNonNegative /\ [][NeverLowered]_vars

\* A total accumulated from two records and raised by a fee.
C5_Witness ==
    /\ prog = "leaderboard" /\ pc = "totalled" /\ fees >= 1
    /\ \E k \in DOMAIN totals : totals[k] = 5

\* C6 as first stated: a record that does not match is skipped with no error,
\* so records (three fields, a key, a numeric amount) whose matching ones have
\* no negative amount always build the ledger of their matching amounts.
C6_Original ==
    (/\ prog = "leaderboard" /\ pc # "start"
     /\ \A i \in 1..Len(lines) : WellFormed(lines[i]) /\ RecKey(lines[i]) # <<>>
     /\ \A i \in 1..Len(lines) : Matches(lines[i], country) => ValidRecord(lines[i]))
    => /\ ~ParseFailed
       /\ LedgerBuilt => totals = RefLedger(lines, country)

\* C6, amended: parse_purchases raises exactly when some line, matching or
\* not, is malformed, has an empty user or a negative amount; otherwise
\* total_spend_by_user holds, per user, the sum of the amounts of the lines of
\* the given country, and the other lines add no key and no amount.
C6_FilteredLedger ==
    /\ (prog = "leaderboard" /\ ret.op = "parse_purchases") =>
          (pc = "failed" <=> \E i \in 1..Len(lines) : ~ValidRecord(lines[i]))
    /\ LedgerBuilt =>
          /\ totals = RefLedger(lines, country)
          /\ \A k \in DOMAIN totals :
                \E i \in 1..Len(lines) :
                    Matches(lines[i], country) /\ RecKey(lines[i]) = k

\* One matching record is accumulated, one record of another category is not.
C6_Witness ==
    /\ LedgerBuilt /\ Len(lines) = 2
    /\ Matches(lines[1], country) /\ RecAmt(lines[1]) = 2
    /\ WellFormed(lines[2]) /\ ~Matches(lines[2], country) /\ RecAmt(lines[2]) = 1
    /\ DOMAIN totals = {RecKey(lines[1])} /\ totals[RecKey(lines[1])] = 2

\* C7: a negative amount in a matching record makes the build raise
\* ValueError in parse_purchases; no purchases, totals or ranking come out of
\* it, whatever records came first.  Once parse_purchases has run, either it
\* failed and produced nothing, or no matching record has a negative amount.
C7_NegativeFails ==
    (prog = "leaderboard" /\ pc # "start") =>
        \/ /\ ParseFailed /\ ret.err = "ValueError"
           /\ purchases = <<>> /\ totals = EmptyDict /\ leaders = <<>>
        \/ ~\E i \in 1..Len(lines) : Matches(lines[i], country) /\ RecAmt(lines[i]) < 0

\* A valid matching record, then a matching record with a negative amount.
C7_Witness ==
    /\ prog = "leaderboard" /\ ParseFailed /\ Len(lines) = 2
    /\ ValidRecord(lines[1]) /\ Matches(lines[1], country) /\ RecAmt(lines[1]) > 0
    /\ Matches(lines[2], country) /\ RecAmt(lines[2]) < 0

\* C8 as first stated, on the ledger of the country of the run: apply_fee
\* fails if the fee is negative or the key is absent, creates no key, changes
\* nothing when it fails, and raises the key's value by the fee otherwise.
C8_Original ==
    [][(prog = "leaderboard" /\ ret'.op = "apply_fee") =>
          LET i == ret'.arg[1]
              fee == ret'.n
              failed == ret'.err # "none"
              L == Ledger(purchases, country)
              L2 == Ledger(purchases', country)
              absent == i > Len(purchases) \/ purchases[i].user \notin DOMAIN L
          IN  /\ (fee < 0 \/ absent) => failed
              /\ DOMAIN L2 = DOMAIN L
              /\ failed => L2 = L /\ purchases' = purchases
              /\ ~failed => L2[purchases[i].user] = L[purchases[i].user] + fee]_vars

\* C8, amended: apply_fee on purchases[i] fails exactly when the fee is
\* negative or there is no purchase i; it creates no key in the ledger of any
\* country; a failed call changes no purchase and no ledger; a successful one
\* raises the amount of purchase i by the fee and nothing else, so the user's
\* total grows by the fee in the ledger of that purchase's country, and the
\* ledger of any other country, where the user may be absent, stays as it was.
C8_ApplyFee ==
    [][(prog = "leaderboard" /\ ret'.op = "apply_fee") =>
          LET i == ret'.arg[1]
              fee == ret'.n
              failed == ret'.err # "none"
          IN  /\ failed <=> (fee < 0 \/ i > Len(purchases))
              /\ \A c \in Categories(purchases) :
                    DOMAIN Ledger(purchases', c) = DOMAIN Ledger(purchases, c)
              /\ failed =>
                    /\ purchases' = purchases
                    /\ \A c \in Categories(purchases) :
                          Ledger(purchases', c) = Ledger(purchases, c)
              /\ ~failed =>
                    /\ purchases' = [purchases EXCEPT ![i].amount = @ + fee]
                    /\ \A c \in Categories(purchases) :
                          Ledger(purchases', c) =
                              IF purchases[i].country = c
                              THEN [Ledger(purchases, c) EXCEPT ![purchases[i].user] = @ + fee]
                              ELSE Ledger(purchases, c)]_vars

\* A fee applied to a purchase of another country than the ledger's, whose
\* user the ledger does not hold.
C8_Witness ==
    /\ prog = "leaderboard" /\ ret.op = "apply_fee" /\ ret.err = "none" /\ ret.n = 1
    /\ purchases[ret.arg[1]].country # country
    /\ purchases[ret.arg[1]].user \notin DOMAIN Ledger(purchases, country)
    /\ purchases[ret.arg[1]].amount = 2

\* C9 as first stated: a matching record of amount 0 leaves the float ledger,
\* and top_users on it, as they are without the record; Counter.add of 0 fails.
C9_Original ==
    /\ LedgerBuilt =>
          \A i \in 1..Len(lines) :
              (Matches(lines[i], country) /\ RecAmt(lines[i]) = 0) =>
                  /\ totals = Built(RemoveAt(lines, i), country)
                  /\ \A k \in 0..MaxLimit :
                        top_users(totals, k) =
                            top_users(Built(RemoveAt(lines, i), country), k)
    /\ (prog = "counter" /\ ret.op = "add" /\ ret.n = 0) => ret.err = "ValueError"

\* C9, amended: a matching record of amount 0 changes the value of no key
\* (dict.get(key, 0) is the same for every key), and leaves the ledger and
\* top_users as they are when its user has another matching record; for a user
\* with no other matching record it adds the entry (user, 0.0), which top_users
\* then lists.  Counter.add of 0 fails.
C9_ZeroAmount ==
    /\ LedgerBuilt =>
          \A i \in 1..Len(lines) :
              (Matches(lines[i], country) /\ RecAmt(lines[i]) = 0) =>
                  LET without == Built(RemoveAt(lines, i), country)
                      u == RecKey(lines[i])
                  IN  /\ \A k \in Keys \cup {KeyNever} :
                            Get(totals, k, 0) = Get(without, k, 0)
                      /\ DOMAIN totals = DOMAIN without \cup {u}
                      /\ u \in DOMAIN without =>
                            /\ totals = without
                            /\ \A k \in 0..MaxLimit :
                                  top_users(totals, k) = top_users(without, k)
                      /\ u \notin DOMAIN without =>
                            /\ totals[u] = 0
                            /\ \E j \in 1..Cardinality(DOMAIN totals) :
                                  /\ top_users(totals, Cardinality(DOMAIN totals))[j] = <<u, 0>>
                                  /\ RemoveAt(top_users(totals, Cardinality(DOMAIN totals)), j)
                                        = top_users(without, Cardinality(DOMAIN without))
    /\ (prog = "counter" /\ ret.op = "add" /\ ret.n = 0) => ret.err = "ValueError"

\* A record of amount 0 for a user with no other record, after another user's.
C9_Witness ==
    /\ LedgerBuilt /\ pc = "ranked" /\ Len(lines) = 2
    /\ Matches(lines[1], country) /\ RecAmt(lines[1]) > 0
    /\ Matches(lines[2], country) /\ RecAmt(lines[2]) = 0
    /\ RecKey(lines[2]) # RecKey(lines[1])
    /\ leaders = <<<<RecKey(lines[1]), RecAmt(lines[1])>>, <<RecKey(lines[2]), 0>>>>

\* The command lines of lab1, by what is wrong with them.
HasTimesValue == Len(argv) >= 3 /\ argv[2] = TimesFlag
MissingFlag == \A i \in 2..Len(argv) : argv[i] # TimesFlag
NotANumber == HasTimesValue /\ ~ParseInt(argv[3]).ok
BelowOne == HasTimesValue /\ ParseInt(argv[3]).ok /\ ParseInt(argv[3]).val < 1
ValidArgs == HasTimesValue /\ ParseInt(argv[3]).ok /\ ParseInt(argv[3]).val >= 1

\* C10: on a command line with no --times flag, with a --times argument that
\* is no number, or with a count below 1, lab1 prints a usage or error message,
\* leaves through sys.exit() and prints no text; on a valid one it prints the
\* text exactly `times` times.
C10_Original ==
    (prog = "repeat" /\ pc = "done") =>
        /\ (MissingFlag \/ NotANumber \/ BelowOne) =>
              /\ Len(stdout) = 1 /\ stdout[1].msg # "" /\ stdout[1].text = <<>>
              /\ exited
        /\ ValidArgs =>
              /\ Len(stdout) = 1 /\ stdout[1].msg = ""
              /\ \E t \in {Text, Upper(Text)} :
                    stdout[1].text = Repeat(t, ParseInt(argv[3]).val)
              /\ ~exited

====
